---- MODULE Spec2Model ----
(***************************************************************************)
(* The OSI semantic-model validator (validation/validate.py): the four     *)
(* validation passes, run in sequence by main over one loaded document,    *)
(* and the PASS/FAIL report.                                               *)
(*                                                                         *)
(* A document is the value yaml.safe_load returns: Python values are       *)
(* modelled as tagged records (None, str, int, list, dict), so that a      *)
(* missing key, a null and a value of another shape stay distinct.         *)
(* Diagnostics are the strings the code formats.  The two collaborators    *)
(* outside the file, jsonschema's iter_errors and sqlglot's parse_one, are *)
(* oracles fixed at the start of a behaviour.                              *)
(***************************************************************************)
EXTENDS Integers, Sequences, FiniteSets, TLC

VARIABLES
    data,               \* the loaded document (yaml.safe_load's result)
    SQLGLOT_AVAILABLE,  \* the import-time flag
    schemaErrors,       \* what Draft202012Validator(schema).iter_errors(data) yields
    parser,             \* sqlglot.parse_one: <<text, grammar>> -> outcome
    pc,                 \* main's position
    errors,             \* main's list of diagnostics
    passOut,            \* history: the list each pass returned in this run
    passLog,            \* history: the passes called in this run, in order
    parseLog,           \* history: the parse_one calls of this run, in order
    stdout,             \* the lines printed by the report
    exitCode,           \* the process's exit status, None while running
    run,                \* which run over the document this is
    prev                \* the finished runs' results, oldest first

vars == <<data, SQLGLOT_AVAILABLE, schemaErrors, parser, pc, errors, passOut,
          passLog, parseLog, stdout, exitCode, run, prev>>

---------------------------------------------------------------------------
(* Python values *)

None == [py |-> "None"]
Str(s) == [py |-> "str", str |-> s]
PyInt(n) == [py |-> "int", int |-> n]
List(xs) == [py |-> "list", list |-> xs]
Dict(m) == [py |-> "dict", dict |-> m]

IsDict(v) == v.py = "dict"
IsStr(v) == v.py = "str"

\* bool(v)
Truthy(v) ==
    CASE v.py = "None" -> FALSE
      [] v.py = "str"  -> v.str # ""
      [] v.py = "int"  -> v.int # 0
      [] v.py = "list" -> v.list # <<>>
      [] v.py = "dict" -> DOMAIN v.dict # {}

\* hash(v) is defined (set membership, dict lookup)
Hashable(v) == v.py \in {"None", "str", "int"}

\* d.get(k, default) on a dict d
Get(d, k, default) == IF k \in DOMAIN d.dict THEN d.dict[k] ELSE default

\* The keys of a mapping, in some order (the model does not keep the
\* insertion order; it matters only for a mapping of two keys or more that
\* is iterated or printed, which no document of the model holds).
RECURSIVE SetToSeq(_)
SetToSeq(S) == IF S = {} THEN <<>> ELSE LET x == CHOOSE x \in S : TRUE IN <<x>> \o SetToSeq(S \ {x})

\* sep.join(parts)
RECURSIVE Join(_, _)
Join(sep, parts) ==
    IF parts = <<>> THEN ""
    ELSE IF Len(parts) = 1 THEN parts[1]
    ELSE parts[1] \o sep \o Join(sep, Tail(parts))

\* repr(v) (of a string without quotes or escapes in it)
RECURSIVE Repr(_)
Repr(v) ==
    CASE v.py = "None" -> "None"
      [] v.py = "str"  -> "'" \o v.str \o "'"
      [] v.py = "int"  -> ToString(v.int)
      [] v.py = "list" -> "[" \o Join(", ", [i \in 1..Len(v.list) |-> Repr(v.list[i])]) \o "]"
      [] v.py = "dict" -> "{" \o Join(", ", [i \in 1..Cardinality(DOMAIN v.dict) |->
                                 LET k == SetToSeq(DOMAIN v.dict)[i]
                                 IN  "'" \o k \o "': " \o Repr(v.dict[k])]) \o "}"

\* str(v), as an f-string formats it
Format(v) == IF v.py = "str" THEN v.str ELSE Repr(v)

\* iter(v) is defined
Iterable(v) == v.py \in {"str", "list", "dict"}

\* the items a for loop over v visits
Items(v) ==
    CASE v.py = "list" -> v.list
      [] v.py = "str"  -> [i \in 1..Len(v.str) |-> Str(SubSeq(v.str, i, i))]
      [] v.py = "dict" -> [i \in 1..Cardinality(DOMAIN v.dict) |-> Str(SetToSeq(DOMAIN v.dict)[i])]

---------------------------------------------------------------------------
(* Strings *)

\* m in s
Contains(s, m) == \E i \in 1..(Len(s) - Len(m) + 1) : SubSeq(s, i, i + Len(m) - 1) = m

\* s.split(chr(10))[0]
FirstLine(s) ==
    LET breaks == {i \in 1..Len(s) : SubSeq(s, i, i) = "\n"}
    IN  IF breaks = {} THEN s
        ELSE SubSeq(s, 1, (CHOOSE i \in breaks : \A j \in breaks : i <= j) - 1)

---------------------------------------------------------------------------
(* A pass in progress: the diagnostics appended so far, the parse_one      *)
(* calls made so far, and whether an exception has been raised (the rest   *)
(* of the pass is then not executed and the exception leaves the pass).    *)

StartPass == [errors |-> <<>>, calls |-> <<>>, raised |-> FALSE]
Raise(acc) == [acc EXCEPT !.raised = TRUE]
Emit(acc, msg) == [acc EXCEPT !.errors = Append(@, msg)]

\* a left-to-right loop over a sequence
FoldSeq(body(_, _), items, acc0) ==
    LET f[i \in 0..Len(items)] == IF i = 0 THEN acc0 ELSE body(items[i], f[i - 1])
    IN  f[Len(items)]

\* for item in coll: body -- nothing runs once an exception is raised, and a
\* coll that is not iterable raises TypeError
ForEach(body(_, _), coll, acc) ==
    IF acc.raised THEN acc
    ELSE IF ~Iterable(coll) THEN Raise(acc)
    ELSE FoldSeq(LAMBDA item, a : IF a.raised THEN a ELSE body(item, a), Items(coll), acc)

---------------------------------------------------------------------------
(* validate_schema *)

validate_schema(iter_errors) ==
    [i \in 1..Len(iter_errors) |->
        LET error == iter_errors[i]
            path == IF error.absolute_path # <<>>
                    THEN Join(" -> ", [j \in 1..Len(error.absolute_path) |->
                                           Format(error.absolute_path[j])])
                    ELSE "(root)"
        IN  "[Schema] " \o path \o ": " \o error.message]

---------------------------------------------------------------------------
(* find_duplicates and validate_unique_names *)

RECURSIVE find_duplicates_from(_, _, _, _)
find_duplicates_from(items, i, seen, duplicates) ==
    IF i > Len(items) THEN duplicates
    ELSE find_duplicates_from(items, i + 1, seen \cup {items[i]},
             IF items[i] \in seen THEN Append(duplicates, items[i]) ELSE duplicates)

\* a slip: a name is reported at its first re-occurrence only
find_duplicates_first_only(items) ==
    LET all == find_duplicates_from(items, 1, {}, <<>>)
    IN  SelectSeq([i \in 1..Len(all) |-> IF \E j \in 1..(i - 1) : all[j] = all[i] THEN None ELSE all[i]],
                  LAMBDA v : v # None)

find_duplicates(items) == find_duplicates_from(items, 1, {}, <<>>)

\* [x.get("name") for x in coll if x.get("name")]
NameList(coll) ==
    SelectSeq([i \in 1..Len(Items(coll)) |-> Get(Items(coll)[i], "name", None)], Truthy)

\* the comprehension raises: coll is not iterable, or an item has no .get
NameListRaises(coll) ==
    \/ ~Iterable(coll)
    \/ \E i \in 1..Len(Items(coll)) : ~IsDict(Items(coll)[i])

\* one "Check unique ... names" block: the name list, find_duplicates on it,
\* one diagnostic per duplicate
UniqueBlock(coll, what, where, acc) ==
    IF acc.raised THEN acc
    ELSE IF NameListRaises(coll) THEN Raise(acc)
    ELSE LET names == NameList(coll) IN
         IF \E i \in 1..Len(names) : ~Hashable(names[i]) THEN Raise(acc)
         ELSE FoldSeq(LAMBDA dup, a :
                          Emit(a, "[Unique] Duplicate " \o what \o " name '" \o Format(dup)
                                  \o "' in " \o where \o "'"),
                      find_duplicates(names), acc)

UniqueModel(model, acc) ==
    IF ~IsDict(model) THEN Raise(acc)
    ELSE
    LET model_name == Format(Get(model, "name", Str("<unnamed>")))
        datasets == Get(model, "datasets", List(<<>>))
        a1 == UniqueBlock(datasets, "dataset", "model '" \o model_name, acc)
        a2 == ForEach(LAMBDA dataset, a :
                          IF ~IsDict(dataset) THEN Raise(a)
                          ELSE UniqueBlock(Get(dataset, "fields", List(<<>>)), "field",
                                   "dataset '" \o Format(Get(dataset, "name", Str("<unnamed>"))), a),
                      datasets, a1)
        a3 == UniqueBlock(Get(model, "metrics", List(<<>>)), "metric",
                          "model '" \o model_name, a2)
    IN  UniqueBlock(Get(model, "relationships", List(<<>>)), "relationship",
                    "model '" \o model_name, a3)

validate_unique_names(d) ==
    IF ~IsDict(d) THEN Raise(StartPass)
    ELSE ForEach(UniqueModel, Get(d, "semantic_model", List(<<>>)), StartPass)

---------------------------------------------------------------------------
(* validate_references *)

\* a slip: the endpoint is looked up even when it is absent or empty
ReferenceCheck_NoGuard(rel_name, ds, dataset_names, acc) ==
    IF acc.raised THEN acc
    ELSE IF ~Hashable(ds) THEN Raise(acc)
    ELSE IF ds \notin dataset_names
         THEN Emit(acc, "[Reference] Relationship '" \o rel_name
                        \o "' references unknown dataset '" \o Format(ds) \o "'")
         ELSE acc

ReferenceCheck(rel_name, ds, dataset_names, acc) ==
    IF acc.raised THEN acc
    ELSE IF ~Truthy(ds) THEN acc
    ELSE IF ~Hashable(ds) THEN Raise(acc)
    ELSE IF ds \notin dataset_names
         THEN Emit(acc, "[Reference] Relationship '" \o rel_name
                        \o "' references unknown dataset '" \o Format(ds) \o "'")
         ELSE acc

ReferenceModel(model, acc) ==
    IF ~IsDict(model) THEN Raise(acc)
    ELSE
    LET datasets == Get(model, "datasets", List(<<>>)) IN
    IF NameListRaises(datasets) THEN Raise(acc)
    ELSE
    LET names == NameList(datasets) IN
    IF \E i \in 1..Len(names) : ~Hashable(names[i]) THEN Raise(acc)
    ELSE
    LET dataset_names == {names[i] : i \in 1..Len(names)} IN
    ForEach(LAMBDA rel, a :
                IF ~IsDict(rel) THEN Raise(a)
                ELSE LET rel_name == Format(Get(rel, "name", Str("<unnamed>")))
                         from_ds == Get(rel, "from", None)
                         to_ds == Get(rel, "to", None)
                     IN  ReferenceCheck(rel_name, to_ds, dataset_names,
                             ReferenceCheck(rel_name, from_ds, dataset_names, a)),
            Get(model, "relationships", List(<<>>)), acc)

validate_references(d) ==
    IF ~IsDict(d) THEN Raise(StartPass)
    ELSE ForEach(ReferenceModel, Get(d, "semantic_model", List(<<>>)), StartPass)

---------------------------------------------------------------------------
(* validate_sql_expression and validate_sql *)

DIALECT_MAP ==
    [ANSI_SQL |-> None, SNOWFLAKE |-> Str("snowflake"), DATABRICKS |-> Str("databricks"),
     MDX |-> None, TABLEAU |-> None]

\* a slip: TABLEAU is left out of the skip set
SKIP_ONLY_MDX == {"MDX"}

SKIP_SQL_VALIDATION == {"MDX", "TABLEAU"}

\* DIALECT_MAP.get(dialect)
GrammarOf(dialect) ==
    IF IsStr(dialect) /\ dialect.str \in DOMAIN DIALECT_MAP THEN DIALECT_MAP[dialect.str]
    ELSE None

\* one call sqlglot.parse_one(text, dialect=grammar), logged
Called(acc, text, grammar) == [acc EXCEPT !.calls = Append(@, <<text, grammar>>)]

\* a slip: a failed raw parse is reported without the SELECT-prefixed attempt
validate_sql_expression_raw_only(expr, dialect, context, acc) ==
    IF ~SQLGLOT_AVAILABLE THEN acc
    ELSE IF IsStr(dialect) /\ dialect.str \in {"MDX", "TABLEAU"} THEN acc
    ELSE
    LET sqlglot_dialect == GrammarOf(dialect)
        first == parser[<<expr.str, sqlglot_dialect>>]
        a1 == Called(acc, expr.str, sqlglot_dialect)
    IN  IF first.exc = "" THEN a1
        ELSE Emit(a1, "[SQL] " \o context \o ": " \o FirstLine(first.text))

\* The function returns the message or None and the caller appends a
\* message that is truthy; every message starts with "[SQL]", so the
\* append is folded in here.  Only ParseError is caught.
validate_sql_expression(expr, dialect, context, acc) ==
    IF ~SQLGLOT_AVAILABLE THEN acc
    ELSE IF ~Hashable(dialect) THEN Raise(acc)
    ELSE IF IsStr(dialect) /\ dialect.str \in SKIP_SQL_VALIDATION THEN acc
    ELSE IF ~IsStr(expr) THEN Raise(acc)
    ELSE
    LET sqlglot_dialect == GrammarOf(dialect)
        first == parser[<<expr.str, sqlglot_dialect>>]
        a1 == Called(acc, expr.str, sqlglot_dialect)
        second == parser[<<"SELECT " \o expr.str, sqlglot_dialect>>]
        a2 == Called(a1, "SELECT " \o expr.str, sqlglot_dialect)
    IN  IF first.exc = "" THEN a1
        ELSE IF first.exc # "ParseError" THEN Raise(a1)
        ELSE IF second.exc = "" THEN a2
        ELSE IF second.exc # "ParseError" THEN Raise(a2)
        ELSE Emit(a2, "[SQL] " \o context \o ": " \o FirstLine(second.text))

\* for dialect_expr in expression.get("dialects", []): ...
SqlDialects(expression, owner, acc) ==
    IF acc.raised THEN acc
    ELSE IF ~IsDict(expression) THEN Raise(acc)
    ELSE ForEach(LAMBDA dialect_expr, a :
                     IF ~IsDict(dialect_expr) THEN Raise(a)
                     ELSE LET dialect == Get(dialect_expr, "dialect", Str("ANSI_SQL"))
                              expr == Get(dialect_expr, "expression", Str(""))
                          IN  IF Truthy(expr)
                              THEN validate_sql_expression(expr, dialect,
                                       owner \o " (" \o Format(dialect) \o ")", a)
                              ELSE a,
                 Get(expression, "dialects", List(<<>>)), acc)

SqlModel(model, acc) ==
    IF ~IsDict(model) THEN Raise(acc)
    ELSE
    LET fieldsDone ==
            ForEach(LAMBDA dataset, a :
                        IF ~IsDict(dataset) THEN Raise(a)
                        ELSE LET dataset_name == Format(Get(dataset, "name", Str("<unnamed>"))) IN
                             ForEach(LAMBDA field, b :
                                         IF ~IsDict(field) THEN Raise(b)
                                         ELSE SqlDialects(Get(field, "expression", Dict(<<>>)),
                                                  "Field '" \o dataset_name \o "."
                                                    \o Format(Get(field, "name", Str("<unnamed>"))) \o "'",
                                                  b),
                                     Get(dataset, "fields", List(<<>>)), a),
                    Get(model, "datasets", List(<<>>)), acc)
    IN  ForEach(LAMBDA metric, a :
                    IF ~IsDict(metric) THEN Raise(a)
                    ELSE SqlDialects(Get(metric, "expression", Dict(<<>>)),
                             "Metric '" \o Format(Get(metric, "name", Str("<unnamed>"))) \o "'", a),
                Get(model, "metrics", List(<<>>)), fieldsDone)

SqlUnavailableWarning ==
    "[SQL] Warning: sqlglot not installed, skipping SQL validation. Install with: pip install sqlglot"

\* a slip: no early return when the capability is unavailable
validate_sql_no_warning(d) ==
    IF ~IsDict(d) THEN Raise(StartPass)
    ELSE ForEach(SqlModel, Get(d, "semantic_model", List(<<>>)), StartPass)

validate_sql(d) ==
    IF ~SQLGLOT_AVAILABLE THEN Emit(StartPass, SqlUnavailableWarning)
    ELSE IF ~IsDict(d) THEN Raise(StartPass)
    ELSE ForEach(SqlModel, Get(d, "semantic_model", List(<<>>)), StartPass)

---------------------------------------------------------------------------
(* main, from "Run validations" on *)

NoPassOut == [schema |-> <<>>, unique |-> <<>>, reference |-> <<>>, sql |-> <<>>]

\* a slip: the list of the previous run is kept
NewErrors_Stale == errors

\* errors = []
NewErrors == <<>>

\* the order of the four calls
FirstPass == "validate_schema"
\* a slip: the run goes to the report as soon as the schema pass finds errors
AfterSchema_ShortCircuit ==
    IF validate_schema(schemaErrors) # <<>> THEN "report" ELSE "validate_unique_names"

AfterSchema == "validate_unique_names"
AfterUnique == "validate_references"
AfterReferences == "validate_sql"
AfterSql == "report"

\* an exception nobody catches ends the process: a traceback, exit status 1
Crash ==
    /\ pc' = "crashed"
    /\ exitCode' = PyInt(1)
    /\ UNCHANGED <<errors, passOut>>

ValidateSchema ==
    /\ pc = "validate_schema"
    /\ LET out == validate_schema(schemaErrors) IN
       /\ errors' = NewErrors \o out
       /\ passOut' = [passOut EXCEPT !.schema = out]
    /\ passLog' = Append(passLog, "validate_schema")
    /\ pc' = AfterSchema
    /\ UNCHANGED <<data, SQLGLOT_AVAILABLE, schemaErrors, parser, parseLog, stdout,
                   exitCode, run, prev>>

ValidateUniqueNames ==
    /\ pc = "validate_unique_names"
    /\ LET r == validate_unique_names(data) IN
       IF r.raised THEN Crash
       ELSE /\ errors' = errors \o r.errors
            /\ passOut' = [passOut EXCEPT !.unique = r.errors]
            /\ pc' = AfterUnique
            /\ UNCHANGED exitCode
    /\ passLog' = Append(passLog, "validate_unique_names")
    /\ UNCHANGED <<data, SQLGLOT_AVAILABLE, schemaErrors, parser, parseLog, stdout, run, prev>>

ValidateReferences ==
    /\ pc = "validate_references"
    /\ LET r == validate_references(data) IN
       IF r.raised THEN Crash
       ELSE /\ errors' = errors \o r.errors
            /\ passOut' = [passOut EXCEPT !.reference = r.errors]
            /\ pc' = AfterReferences
            /\ UNCHANGED exitCode
    /\ passLog' = Append(passLog, "validate_references")
    /\ UNCHANGED <<data, SQLGLOT_AVAILABLE, schemaErrors, parser, parseLog, stdout, run, prev>>

ValidateSql ==
    /\ pc = "validate_sql"
    /\ LET r == validate_sql(data) IN
       /\ parseLog' = r.calls
       /\ IF r.raised THEN Crash
          ELSE /\ errors' = errors \o r.errors
               /\ passOut' = [passOut EXCEPT !.sql = r.errors]
               /\ pc' = AfterSql
               /\ UNCHANGED exitCode
    /\ passLog' = Append(passLog, "validate_sql")
    /\ UNCHANGED <<data, SQLGLOT_AVAILABLE, schemaErrors, parser, stdout, run, prev>>

FileName == "model.yaml"

\* a slip: nothing is taken for a warning
IsWarning_Never(e) == FALSE

\* e is printed among the warnings, not among the errors
IsWarning(e) == Contains(e, "Warning:")

Indented(lines) == [i \in 1..Len(lines) |-> "  " \o lines[i]]

PassedLine == "Validation PASSED: " \o FileName

Report ==
    /\ pc = "report"
    /\ LET warnings == SelectSeq(errors, IsWarning)
           actual_errors == SelectSeq(errors, LAMBDA e : ~IsWarning(e))
       IN  IF errors # <<>>
           THEN IF actual_errors # <<>>
                THEN /\ stdout' = Indented(warnings)
                                  \o <<"\nValidation FAILED with " \o ToString(Len(actual_errors))
                                         \o " error(s):\n">>
                                  \o Indented(actual_errors)
                     /\ exitCode' = PyInt(1)
                ELSE /\ stdout' = Indented(warnings) \o <<PassedLine>>
                     /\ exitCode' = PyInt(0)
           ELSE /\ stdout' = <<PassedLine>>
                /\ exitCode' = PyInt(0)
    /\ pc' = "exit"
    /\ UNCHANGED <<data, SQLGLOT_AVAILABLE, schemaErrors, parser, errors, passOut, passLog,
                   parseLog, run, prev>>

\* The validator is run again on the same file, with the same libraries:
\* a new process, whose only inheritance is what the code fails to reset.
Rerun ==
    /\ pc \in {"exit", "crashed"}
    /\ run = "first"
    /\ run' = "second"
    /\ prev' = Append(prev, [data |-> data, errors |-> errors, passOut |-> passOut,
                             stdout |-> stdout, exitCode |-> exitCode, pc |-> pc,
                             passLog |-> passLog, parseLog |-> parseLog])
    /\ pc' = FirstPass
    /\ stdout' = <<>>
    /\ exitCode' = None
    /\ passOut' = NoPassOut
    /\ passLog' = <<>>
    /\ parseLog' = <<>>
    /\ UNCHANGED <<data, SQLGLOT_AVAILABLE, schemaErrors, parser, errors>>

Next ==
    \/ ValidateSchema
    \/ ValidateUniqueNames
    \/ ValidateReferences
    \/ ValidateSql
    \/ Report
    \/ Rerun

---------------------------------------------------------------------------
(* The documents, flags and oracle answers the behaviours start from *)

MaxNames == 4
MaxRels == 2
MaxEntries == 2

\* a key left out of a mapping (a choice of the generators, not a Python value)
Absent == [py |-> "absent"]

\* the mapping {k: v}, or the empty mapping when the key is left out
Key(k, v) == IF v = Absent THEN <<>> ELSE k :> v

\* all sequences over S of length at most n
SeqsUpTo(S, n) == UNION {[1..k -> S] : k \in 0..n}

Named(n) == Dict(Key("name", n))
NamedAll(ns) == List([i \in 1..Len(ns) |-> Named(ns[i])])

NoSchemaErrors == <<>>
OneSchemaError ==
    <<[absolute_path |-> <<Str("semantic_model"), PyInt(0), Str("name")>>,
       message |-> "None is not of type 'string'"]>>
TwoSchemaErrors ==
    <<[absolute_path |-> <<>>, message |-> "'version' is a required property"]>> \o OneSchemaError

ExprText == "1 +"
Grammars == {None, Str("snowflake")}
ParseInputs == {ExprText, "SELECT " \o ExprText} \X Grammars

Parsed == [exc |-> "", text |-> ""]
ParseError ==
    [exc |-> "ParseError",
     text |-> "Required keyword: 'expression' missing for <class 'sqlglot.expressions.Add'>. Line 1, Col: 3.\n  1 +"]
TokenError == [exc |-> "TokenError", text |-> "Error tokenizing '1 +'"]

AllParsed == [in \in ParseInputs |-> Parsed]

\* The answers of a parser that raises nothing but ParseError: any answers
\* under the default grammar, and under the snowflake grammar the same
\* answer for the raw and for the SELECT-prefixed text.
ParserChoices ==
    {p \in [ParseInputs -> {Parsed, ParseError}] :
        p[<<ExprText, Str("snowflake")>>] = p[<<"SELECT " \o ExprText, Str("snowflake")>>]}

\* One model "sales" whose four name scopes are filled, one of them (scope)
\* with the names ns; a second dataset and a second model reuse the name "a".
NamesDoc(scope, ns) ==
    LET a == <<Str("a")>>
        one == [datasets |-> a, fields |-> a, metrics |-> a, relationships |-> a]
        of == [one EXCEPT ![scope] = ns]
    IN  Dict("semantic_model" :> List(<<
            Dict(("name" :> Str("sales"))
                 @@ ("datasets" :> List(
                        [i \in 1..Len(of.datasets) |->
                            Dict(Key("name", of.datasets[i])
                                 @@ (IF i = 1 THEN "fields" :> NamedAll(of.fields) ELSE <<>>))]
                        \o <<Dict(("name" :> Str("other")) @@ ("fields" :> NamedAll(a)))>>))
                 @@ ("metrics" :> NamedAll(of.metrics))
                 @@ ("relationships" :> NamedAll(of.relationships))),
            Dict("datasets" :> NamedAll(a))>>))

NameChoices == {Absent, None, Str(""), Str("a"), Str("Warning:")}
NameScopes == {"datasets", "fields", "metrics", "relationships"}

InitNames ==
    /\ \E scope \in NameScopes, ns \in SeqsUpTo(NameChoices, MaxNames) : data = NamesDoc(scope, ns)
    /\ SQLGLOT_AVAILABLE = TRUE
    /\ schemaErrors = NoSchemaErrors
    /\ parser = AllParsed

\* Model "sales" has the datasets ds and the relationships rels; the second,
\* unnamed model has the datasets Y and Z.
RefsDoc(ds, rels) ==
    Dict("semantic_model" :> List(<<
        Dict(("name" :> Str("sales")) @@ ("datasets" :> NamedAll(ds))
             @@ ("relationships" :> List(rels))),
        Dict("datasets" :> NamedAll(<<Str("Y"), Str("Z")>>))>>))

RelChoices(n) ==
    {Dict(Key("name", n) @@ Key("from", f) @@ Key("to", t)) :
        f \in {Absent, Str(""), Str("X"), Str("Y")}, t \in {None, Str("Y")}}

InitRefs ==
    /\ \E ds \in {<<>>, <<Str("X")>>, <<Str("X"), Str("Y")>>}, n \in {Absent, Str("r")} :
          \E rels \in SeqsUpTo(RelChoices(n), MaxRels) : data = RefsDoc(ds, rels)
    /\ SQLGLOT_AVAILABLE = TRUE
    /\ schemaErrors \in {NoSchemaErrors, OneSchemaError}
    /\ parser = AllParsed

\* One dataset "orders" with one field "total" whose expression has the
\* entries es, and the metrics and relationships of rest.
SqlDoc(es, rest) ==
    Dict("semantic_model" :> List(<<
        Dict(("name" :> Str("sales"))
             @@ ("datasets" :> List(<<
                    Dict(("name" :> Str("orders"))
                         @@ ("fields" :> List(<<
                                Dict(("name" :> Str("total"))
                                     @@ ("expression" :> Dict("dialects" :> List(es))))>>)))>>))
             @@ ("metrics" :> List(rest.metrics))
             @@ ("relationships" :> List(rest.relationships)))>>))

EntryChoices ==
    {Dict(Key("dialect", d) @@ ("expression" :> Str(ExprText))) :
        d \in {Absent, Str("ANSI_SQL"), Str("SNOWFLAKE"), Str("MDX"), Str("TABLEAU")}}
    \cup {Dict(("dialect" :> Str("SNOWFLAKE")) @@ ("expression" :> Str("")))}

\* the rest of the model: its metrics and its relationships
RestChoices ==
    {[metrics |-> <<>>, relationships |-> <<>>],
     [metrics |-> <<Dict("name" :> Str("revenue"))>>, relationships |-> <<>>],
     [metrics |-> <<Dict(("name" :> Str("revenue"))
                         @@ ("expression" :> Dict("dialects" :> List(<<
                                Dict(("dialect" :> Str("MDX")) @@ ("expression" :> Str(ExprText))),
                                Dict("dialect" :> Str("SNOWFLAKE")),
                                Dict("expression" :> Str(ExprText))>>)))),
                    Dict("name" :> Str("revenue"))>>,
      relationships |-> <<Dict(("name" :> Str("r")) @@ ("from" :> Str("orders"))
                               @@ ("to" :> Str("customers")))>>]}

InitSql ==
    /\ \E es \in SeqsUpTo(EntryChoices, MaxEntries), rest \in RestChoices : data = SqlDoc(es, rest)
    /\ \/ /\ SQLGLOT_AVAILABLE = TRUE
          /\ parser \in ParserChoices
       \/ /\ SQLGLOT_AVAILABLE = FALSE
          /\ parser = AllParsed
    /\ schemaErrors \in {NoSchemaErrors, TwoSchemaErrors}

\* documents with no model at all
InitEmpty ==
    /\ data \in {Dict(<<>>), Dict("semantic_model" :> List(<<>>))}
    /\ SQLGLOT_AVAILABLE \in BOOLEAN
    /\ schemaErrors \in {NoSchemaErrors, TwoSchemaErrors}
    /\ parser \in {AllParsed, [in \in ParseInputs |-> ParseError]}

InitRun ==
    /\ pc = FirstPass
    /\ errors = <<>>
    /\ passOut = NoPassOut
    /\ passLog = <<>>
    /\ parseLog = <<>>
    /\ stdout = <<>>
    /\ exitCode = None
    /\ run = "first"
    /\ prev = <<>>

Init == (InitNames \/ InitRefs \/ InitSql \/ InitEmpty) /\ InitRun

Spec == Init /\ [][Next]_vars

---------------------------------------------------------------------------
(* Documents of any shape: one well-formed document, and the same document *)
(* with the value at one place replaced by a null or by a value of another *)
(* shape; and a parser that may raise an error other than ParseError.      *)

ShapeDoc(at, v) ==
    LET Or(place, x) == IF at = place THEN v ELSE x
        entry == Dict(("dialect" :> Or("dialect", Str("ANSI_SQL")))
                      @@ ("expression" :> Str(ExprText)))
        field == Dict(("name" :> Str("total"))
                      @@ ("expression" :> Or("expression",
                             Dict("dialects" :> Or("dialects", List(<<Or("dialect_expr", entry)>>))))))
        dataset == Dict(("name" :> Or("dataset.name", Str("orders")))
                        @@ ("fields" :> Or("fields", List(<<Or("field", field)>>))))
        metric == Dict(("name" :> Str("revenue"))
                       @@ ("expression" :> Or("metric.expression", Dict(<<>>))))
        rel == Dict(("name" :> Str("r")) @@ ("from" :> Or("from", Str("orders")))
                    @@ ("to" :> Str("orders")))
        model == Dict(("name" :> Or("model.name", Str("sales")))
                      @@ ("datasets" :> Or("datasets", List(<<Or("dataset", dataset)>>)))
                      @@ ("metrics" :> Or("metrics", List(<<Or("metric", metric)>>)))
                      @@ ("relationships" :> Or("relationships", List(<<Or("relationship", rel)>>))))
    IN  Or("data", Dict("semantic_model" :> Or("semantic_model", List(<<Or("model", model)>>))))

Places ==
    {"nowhere", "data", "semantic_model", "model", "model.name", "datasets", "dataset",
     "dataset.name", "fields", "field", "expression", "dialects", "dialect_expr", "dialect",
     "metrics", "metric", "metric.expression", "relationships", "relationship", "from"}

ShapeValues == {None, Str(""), Str("n/a"), List(<<>>), List(<<Str("a")>>), Dict(<<>>)}

InitAnyShape ==
    /\ \E at \in Places, v \in ShapeValues : data = ShapeDoc(at, v)
    /\ SQLGLOT_AVAILABLE \in BOOLEAN
    /\ schemaErrors \in {NoSchemaErrors, OneSchemaError}
    /\ \E first \in {Parsed, ParseError, TokenError}, second \in {Parsed, ParseError, TokenError} :
          parser = [in \in ParseInputs |-> IF in[1] = ExprText THEN first ELSE second]

InitShapes == InitAnyShape /\ InitRun

SpecAnyShape == InitShapes /\ [][Next]_vars

---------------------------------------------------------------------------
(* What the specification says of a document, read off the document itself *)

\* the pass p was called in this run and returned its list
Returned(p) ==
    /\ \E i \in 1..Len(passLog) : passLog[i] = p
    /\ ~(pc = "crashed" /\ passLog[Len(passLog)] = p)

RECURSIVE Concat(_)
Concat(ss) == IF ss = <<>> THEN <<>> ELSE Head(ss) \o Concat(Tail(ss))

RECURSIVE Sum(_)
Sum(ns) == IF ns = <<>> THEN 0 ELSE Head(ns) + Sum(Tail(ns))

\* the members of a collection of the document, a missing key being empty
Members(x, k) == Items(Get(x, k, List(<<>>)))
ModelsOf(d) == Members(d, "semantic_model")

\* the name of x as written, None when the key is missing
NameOf(x) == Get(x, "name", None)
\* the name shown for x in a diagnostic
ShownName(x) == IF "name" \in DOMAIN x.dict THEN Format(x.dict.name) ELSE "<unnamed>"

\* present and non-empty
NonEmpty(v) == v.py = "str" /\ v.str # ""

\* the places of a name list that hold a non-empty name
NonEmptyPlaces(ns) == {i \in 1..Len(ns) : NonEmpty(ns[i])}
\* the places that repeat a non-empty name of an earlier place
Repeats(ns) == {i \in NonEmptyPlaces(ns) : \E j \in 1..(i - 1) : ns[j] = ns[i]}
\* the members of a set of places, in increasing order
InOrder(P, n) == SelectSeq([i \in 1..n |-> i], LAMBDA i : i \in P)

NamesIn(xs) == [i \in 1..Len(xs) |-> NameOf(xs[i])]

\* the diagnostics the specification asks of one uniqueness scope
ScopeDiagnostics(xs, what, where) ==
    LET ns == NamesIn(xs)
        at == InOrder(Repeats(ns), Len(ns))
    IN  [k \in 1..Len(at) |->
            "[Unique] Duplicate " \o what \o " name '" \o ns[at[k]].str \o "' in " \o where \o "'"]

\* the uniqueness scopes of a model, as name lists
ScopesOf(m) ==
    <<NamesIn(Members(m, "datasets"))>>
    \o [i \in 1..Len(Members(m, "datasets")) |-> NamesIn(Members(Members(m, "datasets")[i], "fields"))]
    \o <<NamesIn(Members(m, "metrics")), NamesIn(Members(m, "relationships"))>>

AllScopes(d) == Concat([i \in 1..Len(ModelsOf(d)) |-> ScopesOf(ModelsOf(d)[i])])

ExpectedUniqueModel(m) ==
    ScopeDiagnostics(Members(m, "datasets"), "dataset", "model '" \o ShownName(m))
    \o Concat([i \in 1..Len(Members(m, "datasets")) |->
                  ScopeDiagnostics(Members(Members(m, "datasets")[i], "fields"), "field",
                                   "dataset '" \o ShownName(Members(m, "datasets")[i]))])
    \o ScopeDiagnostics(Members(m, "metrics"), "metric", "model '" \o ShownName(m))
    \o ScopeDiagnostics(Members(m, "relationships"), "relationship", "model '" \o ShownName(m))

ExpectedUnique(d) == Concat([i \in 1..Len(ModelsOf(d)) |-> ExpectedUniqueModel(ModelsOf(d)[i])])

\* C1: once validate_unique_names has returned, its list holds, scope by
\* scope in document order, one diagnostic for each re-occurrence of a
\* non-empty name and nothing else; so each scope contributes (number of
\* non-empty names) minus (number of distinct non-empty names) diagnostics,
\* and absent or empty names are neither flagged nor counted.
C1_UniqueCounts ==
    Returned("validate_unique_names") =>
        /\ passOut.unique = ExpectedUnique(data)
        /\ LET scopes == AllScopes(data) IN
           Len(passOut.unique) =
              Sum([s \in 1..Len(scopes) |->
                      Cardinality(NonEmptyPlaces(scopes[s]))
                      - Cardinality({scopes[s][i] : i \in NonEmptyPlaces(scopes[s])})])

\* a scope holds one name three times, another scope holds an empty or
\* absent name, and the pass has returned two diagnostics or more
C1_Witness ==
    /\ Returned("validate_unique_names")
    /\ \E s \in 1..Len(AllScopes(data)) :
          LET ns == AllScopes(data)[s]
          IN  \E i, j, k \in NonEmptyPlaces(ns) : i < j /\ j < k /\ ns[i] = ns[j] /\ ns[j] = ns[k]
    /\ Len(passOut.unique) >= 2

---------------------------------------------------------------------------

\* the endpoint v of a relationship of model m does not resolve
Unresolved(m, v) ==
    /\ NonEmpty(v)
    /\ \A i \in 1..Len(Members(m, "datasets")) : NameOf(Members(m, "datasets")[i]) # v

EndpointDiagnostic(m, rel, k) ==
    IF k \in DOMAIN rel.dict /\ Unresolved(m, rel.dict[k])
    THEN <<"[Reference] Relationship '" \o ShownName(rel) \o "' references unknown dataset '"
             \o rel.dict[k].str \o "'">>
    ELSE <<>>

ExpectedReferenceModel(m) ==
    Concat([i \in 1..Len(Members(m, "relationships")) |->
               EndpointDiagnostic(m, Members(m, "relationships")[i], "from")
               \o EndpointDiagnostic(m, Members(m, "relationships")[i], "to")])

ExpectedReference(d) ==
    Concat([i \in 1..Len(ModelsOf(d)) |-> ExpectedReferenceModel(ModelsOf(d)[i])])

\* how many endpoints of the document do not resolve in their own model
UnresolvedEndpoints(d) ==
    Sum([i \in 1..Len(ModelsOf(d)) |->
            LET m == ModelsOf(d)[i]
                rels == Members(m, "relationships")
            IN  Sum([j \in 1..Len(rels) |->
                        Cardinality({k \in {"from", "to"} \cap DOMAIN rels[j].dict :
                                        Unresolved(m, rels[j].dict[k])})])])

\* C2: once validate_references has returned, its list holds, relationship
\* by relationship, one diagnostic for `from` exactly when it is present,
\* non-empty and not the name of a dataset of the same model, then one for
\* `to` under the same condition; the number of diagnostics is the number
\* of such endpoints, whatever the relationships are called.
C2_References ==
    Returned("validate_references") =>
        /\ passOut.reference = ExpectedReference(data)
        /\ Len(passOut.reference) = UnresolvedEndpoints(data)

\* a relationship whose `from` resolves and whose `to` names a dataset that
\* exists only in the other model: one diagnostic
C2_Witness ==
    /\ Returned("validate_references")
    /\ Len(ModelsOf(data)) = 2
    /\ \E j \in 1..Len(Members(ModelsOf(data)[1], "relationships")) :
          LET rel == Members(ModelsOf(data)[1], "relationships")[j]
          IN  /\ "from" \in DOMAIN rel.dict /\ NonEmpty(rel.dict["from"])
              /\ ~Unresolved(ModelsOf(data)[1], rel.dict["from"])
              /\ Unresolved(ModelsOf(data)[1], rel.dict["to"])
              /\ ~Unresolved(ModelsOf(data)[2], rel.dict["to"])
    /\ Len(passOut.reference) = 1

---------------------------------------------------------------------------

\* the run has printed its report and exited
Reported == pc = "exit"

\* the diagnostics of the run that are validation errors: everything the
\* schema, uniqueness and reference passes returned, and what the expression
\* pass returned when it could parse (otherwise its list is the warning)
ValidationErrors ==
    passOut.schema \o passOut.unique \o passOut.reference
    \o (IF SQLGLOT_AVAILABLE THEN passOut.sql ELSE <<>>)

FailedHeader(n) == "\nValidation FAILED with " \o ToString(n) \o " error(s):\n"

\* C3: a run that reports ends FAIL with exit code 1 exactly when a pass
\* produced a validation error, and then every validation error is counted
\* and listed among the reported errors, whatever text it holds; otherwise
\* it ends PASS with exit code 0.
C3_FailIffValidationError ==
    Reported =>
        IF ValidationErrors # <<>>
        THEN /\ exitCode = PyInt(1)
             /\ \E i \in 1..Len(stdout) :
                   /\ stdout[i] = FailedHeader(Len(ValidationErrors))
                   /\ SubSeq(stdout, i + 1, Len(stdout)) = Indented(ValidationErrors)
        ELSE /\ exitCode = PyInt(0)
             /\ stdout[Len(stdout)] = PassedLine

\* C4: no exception escapes a pass: the run never ends in a traceback, and
\* every pass that was called returned its list.
C4_NoExceptionEscapes == pc # "crashed"

---------------------------------------------------------------------------

\* the DialectExpression entries of the document in the order validate_sql
\* meets them, each with the text that names its owner
EntriesOf(x, owner) ==
    IF "expression" \in DOMAIN x.dict
    THEN [i \in 1..Len(Members(x.dict.expression, "dialects")) |->
             [owner |-> owner, entry |-> Members(x.dict.expression, "dialects")[i]]]
    ELSE <<>>

EntriesOfModel(m) ==
    Concat([i \in 1..Len(Members(m, "datasets")) |->
               LET ds == Members(m, "datasets")[i] IN
               Concat([j \in 1..Len(Members(ds, "fields")) |->
                          EntriesOf(Members(ds, "fields")[j],
                                    "Field '" \o ShownName(ds) \o "."
                                      \o ShownName(Members(ds, "fields")[j]) \o "'")])])
    \o Concat([i \in 1..Len(Members(m, "metrics")) |->
                  EntriesOf(Members(m, "metrics")[i],
                            "Metric '" \o ShownName(Members(m, "metrics")[i]) \o "'")])

AllEntries(d) == Concat([i \in 1..Len(ModelsOf(d)) |-> EntriesOfModel(ModelsOf(d)[i])])

\* the entry's text is present and non-empty
HasText(e) == "expression" \in DOMAIN e.entry.dict /\ NonEmpty(e.entry.dict.expression)
\* the entry's dialect tag, the ANSI dialect when it has none
DialectOf(e) == IF "dialect" \in DOMAIN e.entry.dict THEN e.entry.dict.dialect.str ELSE "ANSI_SQL"
\* the dialects without a grammar
NoGrammar == {"MDX", "TABLEAU"}
\* the grammar of a dialect that has one: None is the default grammar
GrammarFor(dialect) == IF dialect = "SNOWFLAKE" THEN Str("snowflake") ELSE None

Validated(e) == HasText(e) /\ DialectOf(e) \notin NoGrammar
RawText(e) == e.entry.dict.expression.str
RawFails(e) == parser[<<RawText(e), GrammarFor(DialectOf(e))>>].exc # ""
PrefixedFails(e) == parser[<<"SELECT " \o RawText(e), GrammarFor(DialectOf(e))>>].exc # ""

ExpectedCalls(e) ==
    IF ~Validated(e) THEN <<>>
    ELSE <<<<RawText(e), GrammarFor(DialectOf(e))>>>>
         \o (IF RawFails(e) THEN <<<<"SELECT " \o RawText(e), GrammarFor(DialectOf(e))>>>> ELSE <<>>)

ExpectedSqlDiagnostic(e) ==
    IF Validated(e) /\ RawFails(e) /\ PrefixedFails(e)
    THEN <<"[SQL] " \o e.owner \o " (" \o DialectOf(e) \o "): "
             \o FirstLine(parser[<<"SELECT " \o RawText(e), GrammarFor(DialectOf(e))>>].text)>>
    ELSE <<>>

\* C5: with the capability available, once validate_sql has returned, its
\* list holds, entry by entry in document order, one diagnostic exactly for
\* the entries with non-empty text and a grammar whose raw parse and whose
\* SELECT-prefixed parse both fail; and the parser was called, per such
\* entry, with the raw text first and with the prefixed text only after the
\* raw parse failed, and for no entry without text.
C5_TwoAttempts ==
    (SQLGLOT_AVAILABLE /\ Returned("validate_sql")) =>
        LET entries == AllEntries(data) IN
        /\ passOut.sql = Concat([i \in 1..Len(entries) |-> ExpectedSqlDiagnostic(entries[i])])
        /\ parseLog = Concat([i \in 1..Len(entries) |-> ExpectedCalls(entries[i])])

\* two validated entries: the raw parse of one succeeds although its
\* prefixed parse would fail, both parses of the other fail; and an entry
\* without text
C5_Witness ==
    /\ SQLGLOT_AVAILABLE /\ Returned("validate_sql")
    /\ \E i, j, k \in 1..Len(AllEntries(data)) :
          LET e == AllEntries(data)[i]
              f == AllEntries(data)[j]
          IN  /\ Validated(e) /\ ~RawFails(e) /\ PrefixedFails(e)
              /\ Validated(f) /\ RawFails(f) /\ PrefixedFails(f)
              /\ ~HasText(AllEntries(data)[k])
    /\ Len(passOut.sql) = 1

---------------------------------------------------------------------------

\* C6: with the capability unavailable, validate_sql returns the warning
\* and nothing else, and calls the parser for no expression; the uniqueness
\* and reference passes return what the document asks for all the same;
\* and a run whose only diagnostic is the warning prints it and ends PASS
\* with exit code 0.
C6_Unavailable ==
    (~SQLGLOT_AVAILABLE /\ Returned("validate_sql")) =>
        /\ passOut.sql = <<SqlUnavailableWarning>>
        /\ Contains(SqlUnavailableWarning, "Warning:")
        /\ parseLog = <<>>
        /\ passOut.unique = ExpectedUnique(data)
        /\ passOut.reference = ExpectedReference(data)
        /\ (Reported /\ errors = <<SqlUnavailableWarning>>) =>
              /\ exitCode = PyInt(0)
              /\ stdout = <<"  " \o SqlUnavailableWarning, PassedLine>>

\* the capability is unavailable, the document holds an expression that
\* would not parse, and the run has ended PASS on the warning alone
C6_Witness ==
    /\ ~SQLGLOT_AVAILABLE /\ Reported
    /\ errors = <<SqlUnavailableWarning>>
    /\ \E i \in 1..Len(AllEntries(data)) : HasText(AllEntries(data)[i])
    /\ exitCode = PyInt(0)

---------------------------------------------------------------------------

Count(seq, P(_)) == Len(SelectSeq(seq, P))

\* the entry is validated under the default (ANSI) grammar
DefaultGrammar(e) == Validated(e) /\ DialectOf(e) \in {"ANSI_SQL"}

\* C7: with the capability available, once validate_sql has returned, no
\* diagnostic is about an MDX or TABLEAU entry and the parser was called
\* only for the other entries with text (once or twice each); an entry
\* with text and no dialect tag counts as ANSI_SQL: the parser was called
\* for it under the default grammar and it is reported as (ANSI_SQL) when
\* both parses fail.
C7_NoGrammarSkipped ==
    (SQLGLOT_AVAILABLE /\ Returned("validate_sql")) =>
        LET entries == AllEntries(data) IN
        /\ \A i \in 1..Len(passOut.sql) :
              ~Contains(passOut.sql[i], "(MDX)") /\ ~Contains(passOut.sql[i], "(TABLEAU)")
        /\ Len(parseLog) =
              Sum([i \in 1..Len(entries) |->
                      IF ~Validated(entries[i]) THEN 0 ELSE IF RawFails(entries[i]) THEN 2 ELSE 1])
        /\ Count(parseLog, LAMBDA c : c[2] = None) =
              Sum([i \in 1..Len(entries) |->
                      IF ~DefaultGrammar(entries[i]) THEN 0
                      ELSE IF RawFails(entries[i]) THEN 2 ELSE 1])
        /\ Count(passOut.sql, LAMBDA m : Contains(m, "(ANSI_SQL)")) =
              Count(entries, LAMBDA e : DefaultGrammar(e) /\ RawFails(e) /\ PrefixedFails(e))

\* the default grammar rejects the text both ways; the document holds an
\* MDX entry, a TABLEAU entry and an entry with no dialect tag, all with
\* that text; only the untagged one is reported
C7_Witness ==
    /\ SQLGLOT_AVAILABLE /\ Returned("validate_sql")
    /\ \E i, j, k \in 1..Len(AllEntries(data)) :
          /\ HasText(AllEntries(data)[i]) /\ DialectOf(AllEntries(data)[i]) = "MDX"
          /\ HasText(AllEntries(data)[j]) /\ DialectOf(AllEntries(data)[j]) = "TABLEAU"
          /\ HasText(AllEntries(data)[k]) /\ "dialect" \notin DOMAIN AllEntries(data)[k].entry.dict
          /\ RawFails(AllEntries(data)[k]) /\ PrefixedFails(AllEntries(data)[k])
    /\ Len(passOut.sql) = 1

---------------------------------------------------------------------------

PassOrder == <<"validate_schema", "validate_unique_names", "validate_references", "validate_sql">>

\* how many passes have been called when main is at each position
PassesBefore ==
    [validate_schema |-> 0, validate_unique_names |-> 1, validate_references |-> 2,
     validate_sql |-> 3, report |-> 4, exit |-> 4]

\* C8: at every position of main the passes called so far are the first
\* ones of the order schema, uniqueness, reference, expression, none left
\* out; so the report is reached only after all four, whatever the earlier
\* passes returned, and the merged list is then the concatenation of the
\* four lists in that order.
C8_AllPassesInOrder ==
    /\ pc \in DOMAIN PassesBefore
    /\ passLog = SubSeq(PassOrder, 1, PassesBefore[pc])
    /\ pc \in {"report", "exit"} =>
          errors = passOut.schema \o passOut.unique \o passOut.reference \o passOut.sql

\* a run in which each of the four passes returned diagnostics
C8_Witness ==
    /\ Reported
    /\ passOut.schema # <<>> /\ passOut.unique # <<>>
    /\ passOut.reference # <<>> /\ passOut.sql # <<>>
    /\ SQLGLOT_AVAILABLE

---------------------------------------------------------------------------

ZeroModels(d) == ModelsOf(d) = <<>>

\* C9 as written, the schema validator's answer taken as given: for a
\* document with zero models on which the schema pass reports nothing, the
\* three other passes return nothing either and the run ends PASS, with the
\* capability available or not.
C9_ZeroDiagnosticsInEveryConfiguration ==
    (ZeroModels(data) /\ Reported /\ passOut.schema = <<>>) =>
        /\ passOut.unique = <<>> /\ passOut.reference = <<>> /\ passOut.sql = <<>>
        /\ exitCode = PyInt(0)
        /\ stdout = <<PassedLine>>

\* C9 amended: for a document with zero models the uniqueness and reference
\* passes return nothing and the parser is not called; the expression pass
\* returns nothing when the capability is available and exactly the warning
\* when it is not; and when the schema pass reports nothing the run ends
\* PASS with exit code 0 in both configurations.
C9_ZeroModels ==
    (ZeroModels(data) /\ Reported) =>
        /\ passOut.unique = <<>> /\ passOut.reference = <<>>
        /\ parseLog = <<>>
        /\ passOut.sql = IF SQLGLOT_AVAILABLE THEN <<>> ELSE <<SqlUnavailableWarning>>
        /\ passOut.schema = <<>> =>
              /\ exitCode = PyInt(0)
              /\ stdout[Len(stdout)] = PassedLine

\* a document with zero models, the capability unavailable, nothing from
\* the schema pass: PASS after the warning
C9_Witness ==
    /\ ZeroModels(data) /\ Reported
    /\ ~SQLGLOT_AVAILABLE
    /\ passOut.schema = <<>>
    /\ exitCode = PyInt(0)
    /\ Len(stdout) = 2

---------------------------------------------------------------------------

====
